---- MODULE Spec2Model ----
(***************************************************************************)
(* MaintainX work-order due-date automation.                               *)
(*                                                                         *)
(* Specifications over one set of variables:                               *)
(*   SpecVerify  verifyWebhookSignature as a function of its arguments and *)
(*               of the clock (Date.now()), applied at successive instants *)
(*   Spec        the POST /maintainx-webhook handler of index.ts and the   *)
(*               detached processWebhookEvent tasks it starts              *)
(*   SpecSettling  Spec, with every awaited outbound call settling         *)
(*   SpecDue     calculateDueDate over priorities, instants and time zones *)
(*                                                                         *)
(* Strings are sequences of tokens.  A token is a tuple: <<c>> is the one  *)
(* character c, and <<tag, key, payload>> is a whole hex digest (the       *)
(* HMAC-SHA256 of payload under key, or a damaged copy of it, by tag).     *)
(* HMAC is taken to be collision free.                                     *)
(***************************************************************************)
EXTENDS Integers, Sequences, FiniteSets, TLC

-----------------------------------------------------------------------------
(* JavaScript values                                                       *)

Char(c) == <<c>>

Str(cs) == [i \in 1..Len(cs) |-> Char(cs[i])]

\* undefined and null, kept apart from every string
Undefined == << <<"undefined">> >>

Null == << <<"null">> >>

EmptyString == << >>

\* ToBoolean on string | undefined | null: only "", undefined and null are falsy
Truthy(v) == v # Undefined /\ v # Null /\ v # EmptyString

\* a number or NaN
Num(n) == [nan |-> FALSE, val |-> n]

NaN == [nan |-> TRUE, val |-> 0]

\* one console.log / console.warn / console.error line: the level, the fixed
\* text of the message and the values put into it
Log(level, msg, args) == [level |-> level, msg |-> msg, args |-> args]

-----------------------------------------------------------------------------
(* Digests                                                                 *)

\* crypto.createHmac("sha256", key).update(payload, "utf8").digest("hex"):
\* 64 lower-case hex characters, kept as one token
HmacSha256Hex(key, payload) == << <<"hex64", key, payload>> >>

\* damaged copies of a digest string d (one token): one character altered,
\* the last character dropped, one character appended
AlterOneChar(d) == << <<"hex64x", d[1][2], d[1][3]>> >>

DropLastChar(d) == << <<"hex63", d[1][2], d[1][3]>> >>

AppendOneChar(d) == << <<"hex65", d[1][2], d[1][3]>> >>

\* Buffer.from(s).length of one token
TokenByteLength(tok) ==
    IF Len(tok) = 1 THEN 1
    ELSE CASE tok[1] = "hex64"  -> 64
           [] tok[1] = "hex64x" -> 64
           [] tok[1] = "hex63"  -> 63
           [] tok[1] = "hex65"  -> 65

RECURSIVE ByteLength(_)
ByteLength(s) ==
    IF s = << >> THEN 0 ELSE TokenByteLength(Head(s)) + ByteLength(Tail(s))

\* crypto.timingSafeEqual(Buffer.from(a), Buffer.from(b)): a RangeError when
\* the byte lengths differ, else whether the bytes are equal
TimingSafeEqual(a, b) ==
    IF ByteLength(a) # ByteLength(b) THEN "throw"
    ELSE IF a = b THEN "true" ELSE "false"

-----------------------------------------------------------------------------
(* String operations used by verifyWebhookSignature                        *)

RECURSIVE SplitAcc(_, _, _, _)
SplitAcc(s, sep, cur, acc) ==
    IF s = << >> THEN Append(acc, cur)
    ELSE IF Head(s) = sep
         THEN SplitAcc(Tail(s), sep, << >>, Append(acc, cur))
         ELSE SplitAcc(Tail(s), sep, Append(cur, Head(s)), acc)

\* String.prototype.split(sep), sep one character
Split(s, sep) == SplitAcc(s, Char(sep), << >>, << >>)

\* array[i] with i counted from 0: undefined past the end
At(arr, i) == IF i + 1 <= Len(arr) THEN arr[i + 1] ELSE Undefined

Digits == {"0", "1", "2", "3", "4", "5", "6", "7", "8", "9"}

DigitValue(c) ==
    CASE c = "0" -> 0 [] c = "1" -> 1 [] c = "2" -> 2 [] c = "3" -> 3
      [] c = "4" -> 4 [] c = "5" -> 5 [] c = "6" -> 6 [] c = "7" -> 7
      [] c = "8" -> 8 [] c = "9" -> 9

IsDigit(tok) == Len(tok) = 1 /\ tok[1] \in Digits

RECURSIVE ParseDigits(_, _, _)
ParseDigits(s, seen, acc) ==
    IF s # << >> /\ IsDigit(Head(s))
    THEN ParseDigits(Tail(s), TRUE, acc * 10 + DigitValue(Head(s)[1]))
    ELSE IF seen THEN Num(acc) ELSE NaN

\* parseInt(s, 10): an optional sign, then the longest run of decimal digits;
\* NaN when there is no digit
ParseInt(s) ==
    IF s # << >> /\ Head(s) = Char("-")
    THEN LET r == ParseDigits(Tail(s), FALSE, 0)
         IN  IF r.nan THEN NaN ELSE Num(0 - r.val)
    ELSE IF s # << >> /\ Head(s) = Char("+")
         THEN ParseDigits(Tail(s), FALSE, 0)
         ELSE ParseDigits(s, FALSE, 0)

\* Buffer.toString("utf8"): a byte that is no valid UTF-8 decodes to U+FFFD
DecodeByte(tok) == IF tok = Char("xFF") THEN Char("uFFFD") ELSE tok

BufferToString(buf) == [i \in 1..Len(buf) |-> DecodeByte(buf[i])]

-----------------------------------------------------------------------------
(* verifyWebhookSignature                                                   *)

SecondsToMs == 1000

MinutesToMs == 60 * 1000

DefaultToleranceMinutes == 5

ErrorLog(msg) == Log("error", msg, << >>)

\* !rawBody on Buffer | undefined: every Buffer, the empty one too, is truthy
BufferMissing(rawBody) == rawBody = Undefined \/ rawBody = Null

\* const [timestampPart, v1SignaturePart] = signatureHeader.split(",")
TimestampPart(signatureHeader) == At(Split(signatureHeader, ","), 0)

V1SignaturePart(signatureHeader) == At(Split(signatureHeader, ","), 1)

\* part ? part.split("=")[1] : null
PartValue(part) == IF Truthy(part) THEN At(Split(part, "="), 1) ELSE Null

\* if (!timestamp || !signature)
MalformedPartsAnd(timestamp, signature) == ~Truthy(timestamp) /\ ~Truthy(signature)

MalformedParts(timestamp, signature) == ~Truthy(timestamp) \/ ~Truthy(signature)

\* `${timestamp}.${rawBody.toString("utf8")}`
SignedPayload(timestamp, rawBody) ==
    timestamp \o << Char(".") >> \o BufferToString(rawBody)

ExpectedSignature(secret, timestamp, rawBody) ==
    HmacSha256Hex(secret, SignedPayload(timestamp, rawBody))

\* parseInt(timestamp, 10) * 1000
ReceivedTimestamp(timestamp) ==
    LET n == ParseInt(timestamp)
    IN  IF n.nan THEN NaN ELSE Num(n.val * SecondsToMs)

ToleranceMs(toleranceMinutes) == toleranceMinutes * MinutesToMs

\* now - receivedTimestamp < toleranceMs; a comparison with NaN is false
IsFreshInclusive(now, receivedTimestamp, toleranceMs) ==
    ~receivedTimestamp.nan /\ now - receivedTimestamp.val <= toleranceMs

IsFreshReversed(now, receivedTimestamp, toleranceMs) ==
    ~receivedTimestamp.nan /\ receivedTimestamp.val - now < toleranceMs

\* IsFresh that also rejects a timestamp ahead of the clock by the tolerance
IsFreshSymmetric(now, receivedTimestamp, toleranceMs) ==
    /\ ~receivedTimestamp.nan
    /\ now - receivedTimestamp.val < toleranceMs
    /\ receivedTimestamp.val - now < toleranceMs

IsFresh(now, receivedTimestamp, toleranceMs) ==
    ~receivedTimestamp.nan /\ now - receivedTimestamp.val < toleranceMs

\* new Date(ms).toISOString() throws a RangeError on an invalid date
DateIsValid(ms) == ~ms.nan

\* the part of verifyWebhookSignature after the comparison of the digests
VerifyFreshness(isValidSignature, timestamp, toleranceMinutes, now) ==
    LET receivedTimestamp == ReceivedTimestamp(timestamp)
        isFresh == IsFresh(now, receivedTimestamp, ToleranceMs(toleranceMinutes))
        mismatch == IF isValidSignature THEN << >>
                    ELSE << ErrorLog("Signature mismatch.") >>
    IN  IF ~isFresh /\ ~DateIsValid(receivedTimestamp)
        THEN [result |-> "throw", logs |-> mismatch]
        ELSE [result |-> IF isValidSignature /\ isFresh THEN "true" ELSE "false",
              logs |-> mismatch \o
                       (IF isFresh THEN << >>
                        ELSE << ErrorLog("Webhook timestamp too old.") >>)]

\* the outcome of one call: result is "true", "false" or "throw" (an exception
\* leaves the function), logs are the console.error lines written
verifyWebhookSignature(signatureHeader, rawBody, secret, toleranceMinutes, now) ==
    IF ~Truthy(signatureHeader)
    THEN [result |-> "false", logs |-> << ErrorLog("Signature header is missing.") >>]
    ELSE IF BufferMissing(rawBody)
    THEN [result |-> "false",
          logs |-> << ErrorLog("Raw body is missing for verification.") >>]
    ELSE
    LET timestamp == PartValue(TimestampPart(signatureHeader))
        signature == PartValue(V1SignaturePart(signatureHeader))
    IN  IF MalformedParts(timestamp, signature)
        THEN [result |-> "false",
              logs |-> << ErrorLog("Malformed signature header parts.") >>]
        ELSE
        LET isValidSignature ==
                TimingSafeEqual(signature, ExpectedSignature(secret, timestamp, rawBody))
        IN  IF isValidSignature = "throw"
            THEN [result |-> "throw", logs |-> << >>]
            ELSE VerifyFreshness(isValidSignature = "true", timestamp,
                                 toleranceMinutes, now)

-----------------------------------------------------------------------------------------------------------------------------------------------------
(* Dates                                                                   *)

MsPerDay == 24 * 60 * 60 * 1000

MsPerMinute == 60 * 1000

\* a Date: its time value, kept as the day since 1970-01-01 and the
\* millisecond of that day
DateValue(day, ms) == [day |-> day, ms |-> ms]

\* new Date(t) for a time value t in milliseconds
NewDate(t) == DateValue(t \div MsPerDay, t % MsPerDay)

\* the Date delta milliseconds after date
AddMs(date, delta) ==
    DateValue(date.day + (date.ms + delta) \div MsPerDay, (date.ms + delta) % MsPerDay)

AddDays(date, n) == DateValue(date.day + n, date.ms)

Earlier(a, b) == a.day < b.day \/ (a.day = b.day /\ a.ms < b.ms)

\* the UTC calendar date of day z since 1970-01-01, as Date computes it
CivilFromDays(z) ==
    LET zz  == z + 719468
        era == zz \div 146097
        doe == zz - era * 146097
        yoe == (doe - doe \div 1460 + doe \div 36524 - doe \div 146096) \div 365
        doy == doe - (365 * yoe + yoe \div 4 - yoe \div 100)
        mp  == (5 * doy + 2) \div 153
        d   == doy - (153 * mp + 2) \div 5 + 1
        m   == IF mp < 10 THEN mp + 3 ELSE mp - 9
        y   == yoe + era * 400 + (IF m <= 2 THEN 1 ELSE 0)
    IN  [year |-> y, month |-> m, day |-> d]

\* the time zone of the process: its UTC offset in minutes in standard time
\* and in daylight-saving time, the latter in force from the instant dstStart
\* up to the instant dstEnd
Zone(std, dst, dstStart, dstEnd) ==
    [std |-> std, dst |-> dst, dstStart |-> dstStart, dstEnd |-> dstEnd]

\* the offset of local time from UTC at the instant date, in milliseconds
LocalTZA(zone, date) ==
    (IF ~Earlier(date, zone.dstStart) /\ Earlier(date, zone.dstEnd)
     THEN zone.dst ELSE zone.std) * MsPerMinute

LocalTime(zone, date) == AddMs(date, LocalTZA(zone, date))

\* the instant of a local time: a local time that the clocks skip or repeat
\* is read with the offset in force before the transition
UTC(zone, local) ==
    LET uStd == AddMs(local, 0 - zone.std * MsPerMinute)
        uDst == AddMs(local, 0 - zone.dst * MsPerMinute)
        stdFits == LocalTZA(zone, uStd) = zone.std * MsPerMinute
        dstFits == LocalTZA(zone, uDst) = zone.dst * MsPerMinute
    IN  IF stdFits /\ dstFits THEN (IF zone.dst > zone.std THEN uDst ELSE uStd)
        ELSE IF dstFits THEN uDst
        ELSE IF stdFits THEN uStd
        ELSE (IF zone.dst > zone.std THEN uStd ELSE uDst)

\* Date.prototype.getDate(): the day of the month, in local time
GetDate(date, zone) == CivilFromDays(LocalTime(zone, date).day).day

\* Date.prototype.setDate(dayOfMonth): the same local time of day on the day
\* of the current month numbered dayOfMonth, running on into the next months
SetDate(date, dayOfMonth, zone) ==
    UTC(zone, AddDays(LocalTime(zone, date), dayOfMonth - GetDate(date, zone)))

\* Date.prototype.toISOString(): YYYY-MM-DDTHH:mm:ss.sssZ, kept as one token
ToISOString(date) ==
    LET c   == CivilFromDays(date.day)
        tod == date.ms
    IN  << << "iso", c.year, c.month, c.day, tod \div 3600000,
              (tod \div 60000) % 60, (tod \div 1000) % 60, tod % 1000 >> >>

-----
(* calculateDueDate                                                        *)

HIGH == Str(<< "HIGH" >>)

MEDIUM == Str(<< "MEDIUM" >>)

LOW == Str(<< "LOW" >>)

NONE == Str(<< "NONE" >>)

KnownPriority(priority) == priority \in {HIGH, MEDIUM, LOW, NONE}

\* DaysToAdd with the offset of NONE as the default
DaysToAddDefaultNone(priority) ==
    CASE priority = HIGH   -> 1
      [] priority = MEDIUM -> 3
      [] priority = LOW    -> 7
      [] OTHER             -> 14

\* the switch on priority
DaysToAdd(priority) ==
    CASE priority = HIGH   -> 1
      [] priority = MEDIUM -> 3
      [] priority = LOW    -> 7
      [] priority = NONE   -> 14
      [] OTHER             -> 7

\* calculateDueDate that returns null for a priority it does not know
calculateDueDateOrNull(priority, today, zone) ==
    IF KnownPriority(priority)
    THEN [ value |-> ToISOString(SetDate(today, GetDate(today, zone) + DaysToAdd(priority),
                                         zone)),
           logs  |-> << >> ]
    ELSE [ value |-> Null,
           logs  |-> << Log("warn", "Unknown or undefined priority", << priority >>) >> ]

\* the value returned when new Date() is today, in the time zone zone of the
\* process, and the console.warn lines written
calculateDueDate(priority, today, zone) ==
    [ value |-> ToISOString(SetDate(today, GetDate(today, zone) + DaysToAdd(priority),
                                    zone)),
      logs  |-> IF KnownPriority(priority) THEN << >>
                ELSE << Log("warn", "Unknown or undefined priority", << priority >>) >> ]

-----------------------------------------------------------------------------
(* processWebhookEvent                                                     *)

RECURSIVE NumberDigits(_)
NumberDigits(n) ==
    IF n < 10 THEN << Char(CHOOSE c \in Digits : DigitValue(c) = n) >>
    ELSE Append(NumberDigits(n \div 10),
                Char(CHOOSE c \in Digits : DigitValue(c) = n % 10))

\* `${n}` for a non-negative integer n
NumberToString(n) == NumberDigits(n)

\* payload.newWorkOrder, response.data.workOrder: a snapshot or nothing
Snapshot(priority) == [present |-> TRUE, priority |-> priority]

NoSnapshot == [present |-> FALSE, priority |-> Undefined]

\* `${MAINTAINX_BASE_URL}/workorders/${workOrderId}`
WorkOrderUrl(config, workOrderId) ==
    config.baseUrl \o Str(<< "/workorders/" >>) \o NumberToString(workOrderId)

\* maintainxApiHeaders that carry MAINTAINX_ORG_ID whatever its value
ApiHeadersAlwaysOrg(config) ==
    [ Authorization |-> Str(<< "Bearer " >>) \o config.apiKey,
      ContentType   |-> Str(<< "application/json" >>),
      xOrganizationId |-> config.orgId ]

\* maintainxApiHeaders, the same for the GET and for the PATCH
ApiHeaders(config) ==
    [ Authorization |-> Str(<< "Bearer " >>) \o config.apiKey,
      ContentType   |-> Str(<< "application/json" >>),
      xOrganizationId |-> IF Truthy(config.orgId) THEN config.orgId ELSE Undefined ]

GetCall(task, config, workOrderId) ==
    [ task |-> task, method |-> "GET", url |-> WorkOrderUrl(config, workOrderId),
      headers |-> ApiHeaders(config), dueDate |-> Undefined ]

PatchCall(task, config, workOrderId, dueDate) ==
    [ task |-> task, method |-> "PATCH", url |-> WorkOrderUrl(config, workOrderId),
      headers |-> ApiHeaders(config), dueDate |-> dueDate ]

\* error.response ? error.response.data : error.message
ErrorPayload(error) == IF error.hasResponse THEN error.data ELSE error.message

\* header || fallback
OrElse(v, fallback) == IF Truthy(v) THEN v ELSE fallback

\* a step of one invocation: its position afterwards, the lines it logged and
\* the outbound calls it issued
Step(pc, logs, issued) == [pc |-> pc, logs |-> logs, issued |-> issued]

\* ComputeAndSubmit without the check of the priority
ComputeAndSubmitDefaulting(task, config, workOrderId, workOrderDetails, today) ==
    LET wo == NumberToString(workOrderId)
    IN  IF ~workOrderDetails.present
        THEN Step("done",
                  << Log("error", "Could not obtain Work Order details", << wo >>) >>,
                  << >>)
        ELSE
        LET due == calculateDueDate(workOrderDetails.priority, today, config.tz)
        IN  Step("awaitPatch",
                 due.logs \o
                 << Log("log", "Calculated new due date",
                        << wo, workOrderDetails.priority, due.value >>) >>,
                 << PatchCall(task, config, workOrderId, due.value) >>)

\* from the check of workOrderDetails to the PATCH being issued, at instant today
ComputeAndSubmit(task, config, workOrderId, workOrderDetails, today) ==
    LET wo == NumberToString(workOrderId)
    IN  IF ~workOrderDetails.present
        THEN Step("done",
                  << Log("error", "Could not obtain Work Order details", << wo >>) >>,
                  << >>)
        ELSE
        LET currentPriority == workOrderDetails.priority
        IN  IF ~Truthy(currentPriority)
            THEN Step("done", << Log("log", "has no priority set", << wo >>) >>, << >>)
            ELSE
            LET due == calculateDueDate(currentPriority, today, config.tz)
            IN  IF ~Truthy(due.value)
                THEN Step("done",
                          due.logs \o
                          << Log("error", "Could not calculate due date",
                                 << wo, currentPriority >>) >>,
                          << >>)
                ELSE Step("awaitPatch",
                          due.logs \o
                          << Log("log", "Calculated new due date",
                                 << wo, currentPriority, due.value >>),
                             Log("log", "--- API Key Debug ---", << >>),
                             Log("log", "Full MAINTAINX_API_KEY (DEBUG):",
                                 << config.apiKey >>) >>,
                          << PatchCall(task, config, workOrderId, due.value) >>)

\* StartProcessing that skips an event without embedded snapshot
StartProcessingNoFetch(task, config, payload, today) ==
    LET wo == NumberToString(payload.workOrderId)
        received == << Log("log", "Received payload", << wo >>) >>
    IN  IF ~payload.newWorkOrder.present
        THEN Step("done",
                  received \o << Log("log", "missing newWorkOrder data", << wo >>) >>,
                  << >>)
        ELSE LET next == ComputeAndSubmit(task, config, payload.workOrderId,
                                          payload.newWorkOrder, today)
             IN  Step(next.pc, received \o next.logs, next.issued)

\* StartProcessing that submits an update along with the GET, before the GET
\* has returned the work order
StartProcessingEager(task, config, payload, today) ==
    LET wo == NumberToString(payload.workOrderId)
        received == << Log("log", "Received payload", << wo >>) >>
    IN  IF ~payload.newWorkOrder.present
        THEN Step("awaitGet",
                  received \o << Log("log", "NewWorkOrder data missing", << wo >>) >>,
                  << GetCall(task, config, payload.workOrderId),
                     PatchCall(task, config, payload.workOrderId,
                               calculateDueDate(Undefined, today, config.tz).value) >>)
        ELSE LET next == ComputeAndSubmit(task, config, payload.workOrderId,
                                          payload.newWorkOrder, today)
             IN  Step(next.pc, received \o next.logs, next.issued)

\* from the entry of processWebhookEvent to its first await
StartProcessing(task, config, payload, today) ==
    LET wo == NumberToString(payload.workOrderId)
        received == << Log("log", "Received payload", << wo >>) >>
    IN  IF ~payload.newWorkOrder.present
        THEN Step("awaitGet",
                  received \o << Log("log", "NewWorkOrder data missing", << wo >>) >>,
                  << GetCall(task, config, payload.workOrderId) >>)
        ELSE LET next == ComputeAndSubmit(task, config, payload.workOrderId,
                                          payload.newWorkOrder, today)
             IN  Step(next.pc, received \o next.logs, next.issued)

\* AfterGet that issues the GET again when it failed
AfterGetRetry(task, config, payload, outcome, today) ==
    LET wo == NumberToString(payload.workOrderId)
    IN  IF ~outcome.ok
        THEN Step("awaitGet",
                  << Log("error", "Failed to fetch full details",
                         << wo, ErrorPayload(outcome) >>) >>,
                  << GetCall(task, config, payload.workOrderId) >>)
        ELSE IF ~outcome.hasData
        THEN Step("done",
                  << Log("error", "Failed to fetch full details",
                         << wo, Str(<< "TypeError" >>) >>) >>,
                  << >>)
        ELSE LET next == ComputeAndSubmit(task, config, payload.workOrderId,
                                          outcome.workOrder, today)
             IN  Step(next.pc,
                      << Log("log", "Successfully fetched full details", << wo >>) >>
                          \o next.logs,
                      next.issued)

\* the await of axios.get settles with outcome
AfterGet(task, config, payload, outcome, today) ==
    LET wo == NumberToString(payload.workOrderId)
    IN  IF ~outcome.ok
        THEN Step("done",
                  << Log("error", "Failed to fetch full details",
                         << wo, ErrorPayload(outcome) >>) >>,
                  << >>)
        ELSE IF ~outcome.hasData
        THEN \* response.data.workOrder throws a TypeError, caught by the catch
             Step("done",
                  << Log("error", "Failed to fetch full details",
                         << wo, Str(<< "TypeError" >>) >>) >>,
                  << >>)
        ELSE LET next == ComputeAndSubmit(task, config, payload.workOrderId,
                                          outcome.workOrder, today)
             IN  Step(next.pc,
                      << Log("log", "Successfully fetched full details", << wo >>) >>
                          \o next.logs,
                      next.issued)

\* AfterPatch that logs the rate-limit headers as they are, absent or not
AfterPatchRawHeaders(payload, outcome) ==
    LET wo == NumberToString(payload.workOrderId)
    IN  IF outcome.ok
        THEN Step("done",
                  << Log("log", "Successfully updated Work Order",
                         << wo, NumberToString(outcome.status) >>),
                     Log("log", "Rate Limit Remaining", << outcome.rateLimitRemaining >>),
                     Log("log", "Rate Limit Reset", << outcome.rateLimitReset >>) >>,
                  << >>)
        ELSE Step("done",
                  << Log("error", "Failed to update Work Order",
                         << wo, ErrorPayload(outcome) >>) >>,
                  << >>)

\* AfterPatch that always logs the raw error message, never the response body
AfterPatchMessageOnly(payload, outcome) ==
    LET wo == NumberToString(payload.workOrderId)
    IN  IF outcome.ok
        THEN Step("done",
                  << Log("log", "Successfully updated Work Order",
                         << wo, NumberToString(outcome.status) >>),
                     Log("log", "Rate Limit Remaining",
                         << OrElse(outcome.rateLimitRemaining, Str(<< "N/A" >>)) >>),
                     Log("log", "Rate Limit Reset",
                         << OrElse(outcome.rateLimitReset, Str(<< "N/A" >>)) >>) >>,
                  << >>)
        ELSE
        LET failed == << Log("error", "Failed to update Work Order",
                             << wo, outcome.message >>) >>
        IN  IF outcome.isAxiosError /\ outcome.hasResponse /\ outcome.status = 429
            THEN IF ~outcome.hasHeaders
                 THEN Step("rejected", failed, << >>)
                 ELSE Step("done",
                           failed \o
                           << Log("warn", "Rate limited. Retrying after",
                                  << OrElse(outcome.rateLimitReset,
                                            NumberToString(10)) >>) >>,
                           << >>)
            ELSE Step("done", failed, << >>)

\* AfterPatch that, rate limited, waits and awaits the update once more
AfterPatchAwaitingRetry(payload, outcome) ==
    LET wo == NumberToString(payload.workOrderId)
    IN  IF outcome.ok
        THEN Step("done",
                  << Log("log", "Successfully updated Work Order",
                         << wo, NumberToString(outcome.status) >>),
                     Log("log", "Rate Limit Remaining",
                         << OrElse(outcome.rateLimitRemaining, Str(<< "N/A" >>)) >>),
                     Log("log", "Rate Limit Reset",
                         << OrElse(outcome.rateLimitReset, Str(<< "N/A" >>)) >>) >>,
                  << >>)
        ELSE IF outcome.isAxiosError /\ outcome.hasResponse /\ outcome.status = 429
        THEN Step("awaitPatch", << >>, << >>)
        ELSE Step("done",
                  << Log("error", "Failed to update Work Order",
                         << wo, ErrorPayload(outcome) >>) >>,
                  << >>)

\* the await of axios.patch settles with outcome
AfterPatch(payload, outcome) ==
    LET wo == NumberToString(payload.workOrderId)
    IN  IF outcome.ok
        THEN Step("done",
                  << Log("log", "Successfully updated Work Order",
                         << wo, NumberToString(outcome.status) >>),
                     Log("log", "Rate Limit Remaining",
                         << OrElse(outcome.rateLimitRemaining, Str(<< "N/A" >>)) >>),
                     Log("log", "Rate Limit Reset",
                         << OrElse(outcome.rateLimitReset, Str(<< "N/A" >>)) >>) >>,
                  << >>)
        ELSE
        LET failed == << Log("error", "Failed to update Work Order",
                             << wo, ErrorPayload(outcome) >>) >>
        IN  IF outcome.isAxiosError /\ outcome.hasResponse /\ outcome.status = 429
            THEN IF ~outcome.hasHeaders
                 THEN \* error.response.headers[...] throws inside the catch
                      Step("rejected", failed, << >>)
                 ELSE Step("done",
                           failed \o
                           << Log("warn", "Rate limited. Retrying after",
                                  << OrElse(outcome.rateLimitReset,
                                            NumberToString(10)) >>) >>,
                           << >>)
            ELSE Step("done", failed, << >>)

-----------------------------------------------------------------------------
(* Configuration read from the environment                                 *)

DefaultBaseUrl == Str(<< "https://api.getmaintainx.com/v1" >>)

TestBaseUrl == Str(<< "https://api.testmaintainx.com/v1" >>)

TestApiKey == Str(<< "test_api_key" >>)

TestOrgId == Str(<< "test_org_id" >>)

\* daysFromCivil: the day since 1970-01-01 of a calendar date
DaysFromCivil(y, m, d) ==
    LET yy  == IF m <= 2 THEN y - 1 ELSE y
        era == yy \div 400
        yoe == yy - era * 400
        mp  == (m + 9) % 12
        doy == (153 * mp + 2) \div 5 + d - 1
        doe == yoe * 365 + yoe \div 4 - yoe \div 100 + doy
    IN  era * 146097 + doe - 719468

\* the Date y-m-dTh:mi:00.000Z
Instant(y, m, d, h, mi) ==
    DateValue(DaysFromCivil(y, m, d), h * 60 * MsPerMinute + mi * MsPerMinute)

\* time zones a process may run in: UTC, India (no daylight-saving time) and
\* the east of the United States in 2024 (daylight-saving time from 10 March
\* 2:00 local to 3 November 2:00 local)
ZoneUTC == Zone(0, 0, NewDate(0), NewDate(0))

ZoneKolkata == Zone(330, 330, NewDate(0), NewDate(0))

ZoneNewYork ==
    Zone(0 - 300, 0 - 240, Instant(2024, 3, 10, 7, 0), Instant(2024, 11, 3, 6, 0))

\* the module constants of webhookHandler, from the environment values, and
\* the time zone the process runs in
LoadConfig(envBaseUrl, envOrgId, envTz) ==
    [ baseUrl |-> OrElse(envBaseUrl, DefaultBaseUrl),
      apiKey  |-> TestApiKey,
      orgId   |-> envOrgId,
      tz      |-> envTz ]

\* MAINTAINX_WEBHOOK_SECRET of index.ts
MAINTAINX_WEBHOOK_SECRET == "k1"

-----------------------------------------------------------------------------
(* State                                                                   *)

VARIABLES
    vreq,        \* SpecVerify: the arguments of verifyWebhookSignature
    vnow,        \* SpecVerify: Date.now()
    vcall,       \* SpecVerify: the latest call, with the instant it was made at
    now,         \* Spec: Date.now() of the server process
    deliveries,  \* Spec: the POSTs received, with the response each was given
    tasks,       \* Spec: the processWebhookEvent invocations started
    calls,       \* Spec: the outbound GET and PATCH calls, in the order issued
    config,      \* Spec: MAINTAINX_BASE_URL, MAINTAINX_API_KEY, MAINTAINX_ORG_ID
    dreq,        \* SpecDue: the argument of calculateDueDate, the clock, the zone
    dcall        \* SpecDue: the latest call of calculateDueDate

verifyVars == << vreq, vnow, vcall >>

serverVars == << now, deliveries, tasks, calls, config >>

dueVars == << dreq, dcall >>

vars == << vreq, vnow, vcall, now, deliveries, tasks, calls, config, dreq, dcall >>

-----------------------------------------------------------------------------
(* Arguments tried on verifyWebhookSignature                               *)

Secrets == {"k1", "k2"}

\* the secret the sender signs with
SenderSecret == "k1"

BodyA == Str(<< "{", "}" >>)

\* a body holding a byte that is no valid UTF-8
BodyB == Str(<< "{", "xFF", "}" >>)

SignedBodies == {BodyA, BodyB}

VBodies == SignedBodies \cup {Undefined}

VTimestamps ==
    { Str(<< "0" >>), Str(<< "6", "0" >>), Str(<< "9", "0", "0" >>),
      Str(<< "6", "0", "a" >>), Str(<< "a" >>), EmptyString }

Tolerances == {1, DefaultToleranceMinutes}

\* the instants around the end of each replay window, and the epoch
VInstants ==
    {0} \cup { t * SecondsToMs + ToleranceMs(m) + d :
                   t \in {0, 60}, m \in Tolerances, d \in {0 - 1, 0} }

\* the digests a header may carry for the timestamp ts: the sender's digest
\* over either body, damaged copies of it, one character, nothing
VDigests(ts) ==
    LET good(b) == HmacSha256Hex(SenderSecret, SignedPayload(ts, b))
    IN  { good(b) : b \in SignedBodies }
        \cup { AlterOneChar(good(BodyA)), DropLastChar(good(BodyA)),
               AppendOneChar(good(BodyA)), Str(<< "a" >>), EmptyString }

KeyValue(k, v) == Str(k) \o << Char("=") >> \o v

Comma == << Char(",") >>

\* the header shapes: the documented one, the pairs swapped, other keys, no
\* comma, a part without "=", a third part, a second "=" in a part
HeaderShapes(ts, d) ==
    { KeyValue(<< "t" >>, ts) \o Comma \o KeyValue(<< "v", "1" >>, d),
      KeyValue(<< "v", "1" >>, d) \o Comma \o KeyValue(<< "t" >>, ts),
      KeyValue(<< "x" >>, ts) \o Comma \o KeyValue(<< "y" >>, d),
      KeyValue(<< "t" >>, ts),
      ts \o Comma \o KeyValue(<< "v", "1" >>, d),
      KeyValue(<< "t" >>, ts) \o Comma \o d,
      KeyValue(<< "t" >>, ts) \o Comma \o KeyValue(<< "v", "1" >>, d)
          \o Comma \o KeyValue(<< "x" >>, Str(<< "1" >>)),
      KeyValue(<< "t" >>, ts) \o KeyValue(<< >>, Str(<< "9" >>))
          \o Comma \o KeyValue(<< "v", "1" >>, d) }

VHeaders ==
    {Undefined, EmptyString}
        \cup UNION { UNION { HeaderShapes(ts, d) : d \in VDigests(ts) } :
                         ts \in VTimestamps }

VRequests ==
    [ signatureHeader : VHeaders, rawBody : VBodies, secret : Secrets,
      toleranceMinutes : Tolerances ]

\* the latest call of verifyWebhookSignature: its instant, what it returned
\* and logged, and what the call before it returned
NoCall == [at |-> 0 - 1, result |-> "none", logs |-> << >>, prior |-> "none"]

\* the server's state before anything has arrived
ServerIdle ==
    /\ now = 0
    /\ deliveries = << >>
    /\ tasks = << >>
    /\ calls = << >>
    /\ config = LoadConfig(Undefined, Undefined, ZoneUTC)

VerifyIdle ==
    /\ vreq = [signatureHeader |-> Undefined, rawBody |-> Undefined,
               secret |-> SenderSecret, toleranceMinutes |-> DefaultToleranceMinutes]
    /\ vnow = 0
    /\ vcall = NoCall

NoDueCall ==
    [ called |-> FALSE, at |-> NewDate(0), value |-> Undefined, logs |-> << >>,
      step |-> [pc |-> "none", logs |-> << >>, issued |-> << >>] ]

DueIdle ==
    /\ dreq = [priority |-> Undefined, today |-> NewDate(0), zone |-> ZoneUTC]
    /\ dcall = NoDueCall

-----------------------------------------------------------------------------
(* SpecVerify                                                              *)

VInit ==
    /\ vreq \in VRequests
    /\ vnow \in VInstants
    /\ vcall = NoCall
    /\ ServerIdle
    /\ DueIdle

\* VerifyCall for a verifyWebhookSignature that remembers the request it has
\* accepted and refuses to accept it a second time
VerifyCallOnce ==
    /\ vcall' = LET r == verifyWebhookSignature(vreq.signatureHeader, vreq.rawBody,
                             vreq.secret, vreq.toleranceMinutes, vnow)
                IN  [at |-> vnow,
                     result |-> IF "true" \in {vcall.result, vcall.prior}
                                THEN "false" ELSE r.result,
                     logs |-> r.logs, prior |-> vcall.result]
    /\ UNCHANGED << vreq, vnow, serverVars, dueVars >>

\* one call of verifyWebhookSignature at the current instant
VerifyCall ==
    /\ vcall' = LET r == verifyWebhookSignature(vreq.signatureHeader, vreq.rawBody,
                             vreq.secret, vreq.toleranceMinutes, vnow)
                IN  [at |-> vnow, result |-> r.result, logs |-> r.logs,
                     prior |-> vcall.result]
    /\ UNCHANGED << vreq, vnow, serverVars, dueVars >>

\* the clock moves on
VTick ==
    /\ \E t \in VInstants : t > vnow /\ vnow' = t
    /\ UNCHANGED << vreq, vcall, serverVars, dueVars >>

VNext == VerifyCall \/ VTick

SpecVerify == VInit /\ [][VNext]_vars

-----------------------------------------------------------------------------
(* Requests and remote responses tried on the server                       *)

MaxDeliveries == 2

WorkOrderIds == {101, 202}

URGENT == Str(<< "URGENT" >>)

Payloads ==
    [ workOrderId : WorkOrderIds,
      newWorkOrder : {NoSnapshot, Snapshot(Undefined), Snapshot(HIGH), Snapshot(URGENT)} ]

\* the JSON text of a payload as the bytes of the request body, and
\* bodyParser.json reading it back into req.body
JsonBytes(payload) == << << "json", payload >> >>

JsonParse(rawBody) == rawBody[1][2]

\* the sender stamps its requests with the epoch second 0
SenderTimestamp == Str(<< "0" >>)

\* the header the sender puts on a request with body b
SignedHeader(b) ==
    KeyValue(<< "t" >>, SenderTimestamp) \o Comma
        \o KeyValue(<< "v", "1" >>,
                    HmacSha256Hex(SenderSecret, SignedPayload(SenderTimestamp, b)))

\* what else arrives for a body b: one character of the digest altered, the
\* digest cut short, no header
BadHeaders(b) ==
    LET d == HmacSha256Hex(SenderSecret, SignedPayload(SenderTimestamp, b))
    IN  { KeyValue(<< "t" >>, SenderTimestamp) \o Comma
              \o KeyValue(<< "v", "1" >>, AlterOneChar(d)),
          KeyValue(<< "t" >>, SenderTimestamp) \o Comma
              \o KeyValue(<< "v", "1" >>, DropLastChar(d)),
          Undefined }

TamperedPayload == [workOrderId |-> 101, newWorkOrder |-> Snapshot(HIGH)]

SRequests ==
    { [signatureHeader |-> SignedHeader(JsonBytes(p)), rawBody |-> JsonBytes(p)] :
          p \in Payloads }
    \cup { [signatureHeader |-> h, rawBody |-> JsonBytes(TamperedPayload)] :
               h \in BadHeaders(JsonBytes(TamperedPayload)) }

\* the instants of the server's clock: the epoch, and the end of the replay
\* window of a request stamped 0
Instants == { 0, ToleranceMs(DefaultToleranceMinutes) }

\* what an awaited axios call settles with: a response (ok) or an error
Settled(ok, hasData, workOrder, hasResponse, status, data, hasHeaders, remaining, reset, message) ==
    [ ok |-> ok, hasData |-> hasData, workOrder |-> workOrder,
      hasResponse |-> hasResponse, status |-> status, data |-> data,
      hasHeaders |-> hasHeaders, rateLimitRemaining |-> remaining,
      rateLimitReset |-> reset, message |-> message, isAxiosError |-> ~ok ]

NotSettled ==
    Settled(FALSE, FALSE, NoSnapshot, FALSE, 0, Undefined, FALSE, Undefined,
            Undefined, Str(<< "pending" >>))

Response(status, hasData, workOrder, remaining, reset) ==
    Settled(TRUE, hasData, workOrder, TRUE, status, Undefined, TRUE, remaining,
            reset, Undefined)

HttpError(status, data, hasHeaders, reset) ==
    Settled(FALSE, FALSE, NoSnapshot, TRUE, status, data, hasHeaders, Undefined,
            reset, Str(<< "Request failed" >>))

NetworkError ==
    Settled(FALSE, FALSE, NoSnapshot, FALSE, 0, Undefined, FALSE, Undefined,
            Undefined, Str(<< "Network Error" >>))

GetOutcomes ==
    { Response(200, TRUE, Snapshot(HIGH), Undefined, Undefined),
      Response(200, TRUE, Snapshot(Undefined), Undefined, Undefined),
      Response(200, TRUE, NoSnapshot, Undefined, Undefined),
      Response(200, FALSE, NoSnapshot, Undefined, Undefined),
      HttpError(404, Str(<< "Not Found" >>), TRUE, Undefined),
      NetworkError }

PatchOutcomes ==
    { Response(200, TRUE, NoSnapshot, Str(<< "99" >>), Str(<< "30" >>)),
      Response(200, TRUE, NoSnapshot, Undefined, Undefined),
      HttpError(429, Str(<< "Too Many Requests" >>), TRUE, Str(<< "60" >>)),
      HttpError(429, Str(<< "Too Many Requests" >>), TRUE, Undefined),
      HttpError(429, Str(<< "Too Many Requests" >>), FALSE, Undefined),
      HttpError(500, Str(<< "Internal Server Error" >>), TRUE, Undefined),
      NetworkError }

Configs ==
    { LoadConfig(Undefined, Undefined, ZoneUTC),
      LoadConfig(TestBaseUrl, TestOrgId, ZoneNewYork),
      LoadConfig(TestBaseUrl, EmptyString, ZoneUTC) }

-----------------------------------------------------------------------------
(* Spec: the webhook endpoint and the tasks it starts                      *)

Init ==
    /\ now = 0
    /\ deliveries = << >>
    /\ tasks = << >>
    /\ calls = << >>
    /\ config \in Configs
    /\ VerifyIdle
    /\ DueIdle

Task(delivery, payload, step, today) ==
    [ delivery |-> delivery, payload |-> payload, pc |-> step.pc, logs |-> step.logs,
      get |-> NotSettled, patch |-> NotSettled,
      computedAt |-> IF step.pc = "awaitPatch" THEN today ELSE 0 - 1 ]

\* Answered for a handler that calls processWebhookEvent before it answers
AnsweredAfterStart(tasksStarted, callsIssued, step) ==
    [tasks |-> tasksStarted + 1, calls |-> callsIssued + Len(step.issued)]

\* res.status(...).send(...): how many tasks had been started and how many
\* outbound calls issued when the response was sent; the handler answers
\* before it calls processWebhookEvent, so step is still to run
Answered(tasksStarted, callsIssued, step) ==
    [tasks |-> tasksStarted, calls |-> callsIssued]

Delivery(req, verified, status, task, logs, sent) ==
    [ signatureHeader |-> req.signatureHeader, rawBody |-> req.rawBody, at |-> now,
      verified |-> verified, status |-> status, task |-> task, logs |-> logs,
      sent |-> sent ]

NoStep == Step("none", << >>, << >>)

\* Receive that starts no task for a body it has already processed
ReceiveDeduplicating ==
    /\ Len(deliveries) < MaxDeliveries
    /\ \E req \in SRequests :
       \E v \in { verifyWebhookSignature(req.signatureHeader, req.rawBody,
                      MAINTAINX_WEBHOOK_SECRET, DefaultToleranceMinutes, now) } :
         LET t == Len(tasks) + 1
             sent == Answered(Len(tasks), Len(calls), NoStep)
         IN  IF v.result = "throw"
             THEN /\ deliveries' =
                         Append(deliveries, Delivery(req, "throw", 500, 0, v.logs, sent))
                  /\ UNCHANGED << tasks, calls >>
             ELSE IF v.result = "false"
             THEN /\ deliveries' =
                         Append(deliveries,
                                Delivery(req, "false", 401, 0,
                                    v.logs \o << Log("error",
                                        "Webhook signature verification failed", << >>) >>,
                                    sent))
                  /\ UNCHANGED << tasks, calls >>
             ELSE IF \E d \in 1..Len(deliveries) :
                        deliveries[d].verified = "true"
                            /\ deliveries[d].rawBody = req.rawBody
             THEN /\ deliveries' =
                         Append(deliveries, Delivery(req, "true", 200, 0, v.logs, sent))
                  /\ UNCHANGED << tasks, calls >>
             ELSE \E step \in { StartProcessing(t, config, JsonParse(req.rawBody),
                                                 NewDate(now)) } :
                      /\ deliveries' =
                             Append(deliveries,
                                    Delivery(req, "true", 200, t, v.logs,
                                             Answered(Len(tasks), Len(calls), step)))
                      /\ tasks' = Append(tasks, Task(Len(deliveries) + 1,
                                                     JsonParse(req.rawBody), step, now))
                      /\ calls' = calls \o step.issued
    /\ UNCHANGED << now, config, verifyVars, dueVars >>

\* Receive that holds back an event while an invocation for the same work
\* order is still in flight
ReceiveSerialized ==
    /\ Len(deliveries) < MaxDeliveries
    /\ \E req \in SRequests :
       \E v \in { verifyWebhookSignature(req.signatureHeader, req.rawBody,
                      MAINTAINX_WEBHOOK_SECRET, DefaultToleranceMinutes, now) } :
         LET t == Len(tasks) + 1
             sent == Answered(Len(tasks), Len(calls), NoStep)
         IN  IF v.result = "throw"
             THEN /\ deliveries' =
                         Append(deliveries, Delivery(req, "throw", 500, 0, v.logs, sent))
                  /\ UNCHANGED << tasks, calls >>
             ELSE IF v.result = "false"
             THEN /\ deliveries' =
                         Append(deliveries,
                                Delivery(req, "false", 401, 0,
                                    v.logs \o << Log("error",
                                        "Webhook signature verification failed", << >>) >>,
                                    sent))
                  /\ UNCHANGED << tasks, calls >>
             ELSE IF \E i \in 1..Len(tasks) :
                        /\ tasks[i].payload.workOrderId
                               = JsonParse(req.rawBody).workOrderId
                        /\ tasks[i].pc \in {"awaitGet", "awaitPatch"}
             THEN /\ deliveries' =
                         Append(deliveries, Delivery(req, "true", 200, 0, v.logs, sent))
                  /\ UNCHANGED << tasks, calls >>
             ELSE \E step \in { StartProcessing(t, config, JsonParse(req.rawBody),
                                                 NewDate(now)) } :
                      /\ deliveries' =
                             Append(deliveries,
                                    Delivery(req, "true", 200, t, v.logs,
                                             Answered(Len(tasks), Len(calls), step)))
                      /\ tasks' = Append(tasks, Task(Len(deliveries) + 1,
                                                     JsonParse(req.rawBody), step, now))
                      /\ calls' = calls \o step.issued
    /\ UNCHANGED << now, config, verifyVars, dueVars >>

\* app.post("/maintainx-webhook"): verify, answer, start processWebhookEvent
\* and run it to its first await.  An exception thrown by the handler is
\* answered 500 by the framework.
Receive ==
    /\ Len(deliveries) < MaxDeliveries
    /\ \E req \in SRequests :
       \E v \in { verifyWebhookSignature(req.signatureHeader, req.rawBody,
                      MAINTAINX_WEBHOOK_SECRET, DefaultToleranceMinutes, now) } :
         LET t == Len(tasks) + 1
             sent == Answered(Len(tasks), Len(calls), NoStep)
         IN  IF v.result = "throw"
             THEN /\ deliveries' =
                         Append(deliveries, Delivery(req, "throw", 500, 0, v.logs, sent))
                  /\ UNCHANGED << tasks, calls >>
             ELSE IF v.result = "false"
             THEN /\ deliveries' =
                         Append(deliveries,
                                Delivery(req, "false", 401, 0,
                                    v.logs \o << Log("error",
                                        "Webhook signature verification failed", << >>) >>,
                                    sent))
                  /\ UNCHANGED << tasks, calls >>
             ELSE \E step \in { StartProcessing(t, config, JsonParse(req.rawBody),
                                                 NewDate(now)) } :
                      /\ deliveries' =
                             Append(deliveries,
                                    Delivery(req, "true", 200, t, v.logs,
                                             Answered(Len(tasks), Len(calls), step)))
                      /\ tasks' = Append(tasks, Task(Len(deliveries) + 1,
                                                     JsonParse(req.rawBody), step, now))
                      /\ calls' = calls \o step.issued
    /\ UNCHANGED << now, config, verifyVars, dueVars >>

\* GetSettles for a processWebhookEvent that keeps the payload it works on in
\* a module-level variable, overwritten by every invocation that starts
GetSettlesSharedPayload ==
    /\ \E i \in 1..Len(tasks), outcome \in GetOutcomes :
         /\ tasks[i].pc = "awaitGet"
         /\ \E step \in { AfterGet(i, config, tasks[Len(tasks)].payload, outcome,
                                     NewDate(now)) } :
                /\ tasks' = [tasks EXCEPT ![i] =
                        [@ EXCEPT !.pc = step.pc, !.logs = @ \o step.logs,
                                  !.get = outcome,
                                  !.computedAt = IF step.pc = "awaitPatch"
                                                 THEN now ELSE 0 - 1]]
                /\ calls' = calls \o step.issued
    /\ UNCHANGED << now, deliveries, config, verifyVars, dueVars >>

\* the GET of a task settles and the task runs on to its next await or its end
GetSettles ==
    /\ \E i \in 1..Len(tasks), outcome \in GetOutcomes :
         /\ tasks[i].pc = "awaitGet"
         /\ \E step \in { AfterGet(i, config, tasks[i].payload, outcome, NewDate(now)) } :
                /\ tasks' = [tasks EXCEPT ![i] =
                        [@ EXCEPT !.pc = step.pc, !.logs = @ \o step.logs,
                                  !.get = outcome,
                                  !.computedAt = IF step.pc = "awaitPatch"
                                                 THEN now ELSE 0 - 1]]
                /\ calls' = calls \o step.issued
    /\ UNCHANGED << now, deliveries, config, verifyVars, dueVars >>

\* the PATCH of a task settles and the task ends
PatchSettles ==
    /\ \E i \in 1..Len(tasks), outcome \in PatchOutcomes :
         /\ tasks[i].pc = "awaitPatch"
         /\ \E step \in { AfterPatch(tasks[i].payload, outcome) } :
                /\ tasks' = [tasks EXCEPT ![i] =
                        [@ EXCEPT !.pc = step.pc, !.logs = @ \o step.logs,
                                  !.patch = outcome]]
                /\ calls' = calls \o step.issued
    /\ UNCHANGED << now, deliveries, config, verifyVars, dueVars >>

\* the clock moves on
Tick ==
    /\ \E t \in Instants : t > now /\ now' = t
    /\ UNCHANGED << deliveries, tasks, calls, config, verifyVars, dueVars >>

Next == Receive \/ GetSettles \/ PatchSettles \/ Tick

Spec == Init /\ [][Next]_vars

\* every outbound call is settled in the end, and the invocation that awaits
\* it is resumed: an await of axios.get or axios.patch left waiting for ever
\* is excluded
SpecSettling == Init /\ [][Next]_vars /\ WF_vars(GetSettles) /\ WF_vars(PatchSettles)

-----------------------------------------------------------------------------
(* SpecDue: calculateDueDate as a function of its argument, of the clock   *)
(* and of the time zone of the process                                     *)

\* the four tags, values outside them, and no value
DuePriorities ==
    { HIGH, MEDIUM, LOW, NONE, URGENT, Str(<< "high" >>), EmptyString, Undefined, Null }

\* the instant of the test suite; the ends of a month, of February in a leap
\* year and of a year; the days before the clocks change in ZoneNewYork, at
\* noon, at a local time the next day skips, and late in the local evening
DueInstants ==
    { Instant(2024, 6, 15, 12, 0),
      AddMs(Instant(2024, 1, 31, 23, 59), 59999),
      Instant(2024, 2, 28, 12, 0),
      Instant(2024, 12, 25, 0, 0),
      AddMs(Instant(2024, 12, 31, 23, 59), 59999),
      Instant(2024, 3, 9, 12, 0),
      Instant(2024, 3, 9, 7, 30),
      Instant(2024, 3, 9, 4, 30),
      Instant(2024, 11, 2, 12, 0),
      Instant(2024, 11, 2, 5, 30) }

Zones == { ZoneUTC, ZoneKolkata, ZoneNewYork }

DueRequests == [ priority : DuePriorities, today : DueInstants, zone : Zones ]

DInit ==
    /\ dreq \in DueRequests
    /\ dcall = NoDueCall
    /\ ServerIdle
    /\ VerifyIdle

\* one call of calculateDueDate at the current instant, and what
\* processWebhookEvent does with the value on a snapshot of that priority
DueCall ==
    /\ dcall' =
           LET r == calculateDueDate(dreq.priority, dreq.today, dreq.zone)
               step == ComputeAndSubmit(1, LoadConfig(Undefined, Undefined, dreq.zone),
                                        101, Snapshot(dreq.priority), dreq.today)
           IN  [ called |-> TRUE, at |-> dreq.today, value |-> r.value,
                 logs |-> r.logs, step |-> step ]
    /\ UNCHANGED << dreq, verifyVars, serverVars >>

\* the clock moves on
DTick ==
    /\ \E t \in DueInstants :
         Earlier(dreq.today, t) /\ dreq' = [dreq EXCEPT !.today = t]
    /\ UNCHANGED << dcall, verifyVars, serverVars >>

DNext == DueCall \/ DTick

SpecDue == DInit /\ [][DNext]_vars

-----------------------------------------------------------------------------
(* Reading a header by index, for the statements below                     *)

\* the index of the first token c of s from index from on, 0 when there is none
IndexOf(s, c, from) ==
    IF \E i \in from..Len(s) : s[i] = Char(c)
    THEN CHOOSE i \in from..Len(s) :
             s[i] = Char(c) /\ \A j \in from..(i - 1) : s[j] # Char(c)
    ELSE 0

HasToken(s, c) == \E i \in 1..Len(s) : s[i] = Char(c)

\* the text of s before its first c (all of s when it holds no c)
UpTo(s, c) ==
    IF IndexOf(s, c, 1) = 0 THEN s ELSE SubSeq(s, 1, IndexOf(s, c, 1) - 1)

\* the text of s after its first c
After(s, c) == SubSeq(s, IndexOf(s, c, 1) + 1, Len(s))

\* the first and the second comma-separated pair of a header
FirstPair(h) == UpTo(h, ",")

SecondPair(h) == UpTo(After(h, ","), ",")

\* the value of a pair key=value
ValueOf(pair) == UpTo(After(pair, "="), "=")

KeyOf(pair) == UpTo(pair, "=")

\* the header cannot be split into a non-empty timestamp and a non-empty digest
Unsplittable(h) ==
    \/ ~HasToken(h, ",")
    \/ ~HasToken(FirstPair(h), "=")
    \/ ~HasToken(SecondPair(h), "=")
    \/ ValueOf(FirstPair(h)) = EmptyString
    \/ ValueOf(SecondPair(h)) = EmptyString

IsDecimal(s) == s # EmptyString /\ \A i \in 1..Len(s) : IsDigit(s[i])

RECURSIVE DecimalValue(_)
DecimalValue(s) ==
    IF s = EmptyString THEN 0
    ELSE DecimalValue(SubSeq(s, 1, Len(s) - 1)) * 10 + DigitValue(s[Len(s)][1])

\* the leading decimal number of a timestamp text, as parseInt reads it
LeadingDecimal(s) ==
    LET n == IF \E i \in 1..Len(s) : ~IsDigit(s[i])
             THEN (CHOOSE i \in 1..Len(s) :
                       ~IsDigit(s[i]) /\ \A j \in 1..(i - 1) : IsDigit(s[j])) - 1
             ELSE Len(s)
    IN  SubSeq(s, 1, n)

Called == vcall.result # "none"

HeaderPresent == vreq.signatureHeader # Undefined

BodyPresent == vreq.rawBody # Undefined

\* the age of the request at the call, in milliseconds, for a timestamp text
\* that starts with a decimal number
AgeMs(ts) == vcall.at - DecimalValue(LeadingDecimal(ts)) * 1000

WindowMs == vreq.toleranceMinutes * 60 * 1000

\* the digest of the header is the HMAC over "<timestamp>.<body as UTF-8>",
\* timestamp and digest being the values of the first and the second pair
DigestMatches ==
    /\ HeaderPresent /\ BodyPresent
    /\ ~Unsplittable(vreq.signatureHeader)
    /\ ValueOf(SecondPair(vreq.signatureHeader)) =
           HmacSha256Hex(vreq.secret,
               ValueOf(FirstPair(vreq.signatureHeader)) \o << Char(".") >>
                   \o BufferToString(vreq.rawBody))

HasAge ==
    /\ HeaderPresent
    /\ HasToken(vreq.signatureHeader, "=")
    /\ LeadingDecimal(ValueOf(FirstPair(vreq.signatureHeader))) # EmptyString

HeaderTimestamp == ValueOf(FirstPair(vreq.signatureHeader))

-----------------------------------------------------------------------------
(* C1 *)

-----------------------------------------------------------------------------
(* C3, C4, C5, C6 *)

HeaderDigest == ValueOf(SecondPair(vreq.signatureHeader))

\* the header has the documented shape t=<timestamp>,v1=<digest>, both
\* values non-empty, and the body is present
DocumentedShape ==
    /\ HeaderPresent /\ BodyPresent
    /\ ~Unsplittable(vreq.signatureHeader)
    /\ KeyOf(FirstPair(vreq.signatureHeader)) = Str(<< "t" >>)
    /\ KeyOf(SecondPair(vreq.signatureHeader)) = Str(<< "v", "1" >>)

\* C3: a call whose v1 digest has another byte length than the 64
\* characters of the expected digest returns false and does not throw
C3_LengthMismatchReturnsFalse ==
    (Called /\ DocumentedShape /\ ByteLength(HeaderDigest) # 64)
        => vcall.result = "false"

\* C4: a call returns false, without throwing, when the header is absent, the
\* body is absent, or the header cannot be split into a non-empty timestamp
\* and a non-empty digest
C4_AbsentOrUnsplittableReturnsFalse ==
    (Called /\ (~HeaderPresent \/ ~BodyPresent \/ Unsplittable(vreq.signatureHeader)))
        => vcall.result = "false"

\* a call on a present header with a comma whose timestamp value is empty,
\* with the body present, returned false
C4_Witness ==
    /\ vcall.result = "false"
    /\ HeaderPresent /\ BodyPresent
    /\ HasToken(vreq.signatureHeader, ",")
    /\ HasToken(FirstPair(vreq.signatureHeader), "=")
    /\ ValueOf(FirstPair(vreq.signatureHeader)) = EmptyString
    /\ HeaderDigest # EmptyString

\* the request is validly signed: documented shape, a decimal timestamp, and
\* the digest is the HMAC under the verifier's secret over "<timestamp>.<body>"
ValidlySigned ==
    /\ DocumentedShape
    /\ IsDecimal(HeaderTimestamp)
    /\ DigestMatches

\* C5: a validly signed request is accepted at every instant at which its
\* age is less than the tolerance and rejected at every instant at which its
\* age is the tolerance or more; the clock never going back, a request once
\* rejected is not accepted by a later call
C5_ReplayWindow ==
    /\ []( (Called /\ ValidlySigned) =>
             /\ AgeMs(HeaderTimestamp) < WindowMs => vcall.result = "true"
             /\ AgeMs(HeaderTimestamp) >= WindowMs => vcall.result = "false" )
    /\ [][ (ValidlySigned /\ vcall.result = "false") => vcall'.result # "true" ]_vars

\* a validly signed request rejected at the instant its age equals the tolerance
C5_Witness ==
    /\ ValidlySigned
    /\ vcall.result = "false"
    /\ AgeMs(HeaderTimestamp) = WindowMs

\* the header lists the pairs in the other order, v1=<digest>,t=<timestamp>,
\* the digest being the HMAC over "<timestamp>.<body>" of a decimal timestamp
SwappedValidlySigned ==
    /\ HeaderPresent /\ BodyPresent
    /\ ~Unsplittable(vreq.signatureHeader)
    /\ ~HasToken(After(After(vreq.signatureHeader, ","), ","), ",")
    /\ KeyOf(FirstPair(vreq.signatureHeader)) = Str(<< "v", "1" >>)
    /\ KeyOf(SecondPair(vreq.signatureHeader)) = Str(<< "t" >>)
    /\ IsDecimal(HeaderDigest)
    /\ ValueOf(FirstPair(vreq.signatureHeader)) =
           HmacSha256Hex(vreq.secret,
               HeaderDigest \o << Char(".") >> \o BufferToString(vreq.rawBody))

\* C6: the header is read by key, so a validly signed fresh request whose
\* header lists v1 before t is verified true like the header that lists t first
C6_SwappedOrderVerifies ==
    (Called /\ SwappedValidlySigned /\ AgeMs(HeaderDigest) < WindowMs)
        => vcall.result = "true"

-----------------------------------------------------------------------------
(* Reading the server's state, for the statements below                    *)

TaskIds == 1..Len(tasks)

CallsOf(i, method) == SelectSeq(calls, LAMBDA c : c.task = i /\ c.method = method)

GetIssued(i) == Len(CallsOf(i, "GET")) > 0

PatchIssued(i) == Len(CallsOf(i, "PATCH")) > 0

\* the GET of task i was issued and has settled
GetHasSettled(i) == GetIssued(i) /\ tasks[i].pc # "awaitGet"

\* the GET of task i settled without a work order that can be read: an error
\* status, a transport error, a response without data or without workOrder
GetFailed(i) ==
    /\ GetHasSettled(i)
    /\ (~tasks[i].get.ok \/ ~tasks[i].get.hasData \/ ~tasks[i].get.workOrder.present)

\* the snapshot task i works on: the embedded one, else the fetched one
HasResolved(i) ==
    \/ tasks[i].payload.newWorkOrder.present
    \/ (GetHasSettled(i) /\ ~GetFailed(i))

Resolved(i) ==
    IF tasks[i].payload.newWorkOrder.present
    THEN tasks[i].payload.newWorkOrder
    ELSE tasks[i].get.workOrder

HasLog(i, level, msg) ==
    \E k \in 1..Len(tasks[i].logs) :
        tasks[i].logs[k].level = level /\ tasks[i].logs[k].msg = msg

\* calculateDueDate leaves a trace of each call in the log of the task: the
\* line with the computed date, or the line that no date could be computed
DueDateComputed(i) ==
    \/ \E k \in 1..Len(tasks[i].logs) :
           tasks[i].logs[k].msg \in {"Calculated new due date",
                                     "Could not calculate due date",
                                     "Unknown or undefined priority"}
    \/ tasks[i].computedAt >= 0

ExpectedUrl(i) ==
    config.baseUrl \o Str(<< "/workorders/" >>)
        \o NumberToString(tasks[i].payload.workOrderId)

-----------------------------------------------------------------------------
(* C2 *)

\* C2: processWebhookEvent is started, and outbound calls are issued, only for
\* a request verifyWebhookSignature returned true for; a request that fails
\* verification is answered 401 and starts no task and no outbound call
C2_FailedVerificationAnswered401 ==
    /\ \A t \in TaskIds : deliveries[tasks[t].delivery].verified = "true"
    /\ \A k \in 1..Len(calls) : calls[k].task \in TaskIds
    /\ \A d \in 1..Len(deliveries) :
           deliveries[d].verified # "true"
               => deliveries[d].status = 401 /\ deliveries[d].task = 0

-----------------------------------------------------------------------------
(* C7 *)

\* C7: a GET is issued for an event exactly when it carries no embedded
\* snapshot; an embedded priority is the one the due date is computed from;
\* and when the GET returns a work order with a priority the task goes on to
\* the due date and the PATCH
C7_SnapshotResolution ==
    \A i \in TaskIds :
        /\ GetIssued(i) <=> ~tasks[i].payload.newWorkOrder.present
        /\ (tasks[i].payload.newWorkOrder.present /\ PatchIssued(i))
               => CallsOf(i, "PATCH")[1].dueDate =
                      calculateDueDate(tasks[i].payload.newWorkOrder.priority,
                                       NewDate(tasks[i].computedAt), config.tz).value
        /\ ( /\ ~tasks[i].payload.newWorkOrder.present
             /\ GetHasSettled(i) /\ ~GetFailed(i)
             /\ Truthy(tasks[i].get.workOrder.priority) )
               => /\ PatchIssued(i)
                  /\ HasLog(i, "log", "Calculated new due date")

\* a task without embedded snapshot whose GET returned a priority and whose
\* PATCH was then issued, next to a task with an embedded snapshot
C7_Witness ==
    \E i, j \in TaskIds :
        /\ ~tasks[i].payload.newWorkOrder.present
        /\ GetHasSettled(i) /\ Truthy(tasks[i].get.workOrder.priority)
        /\ PatchIssued(i)
        /\ tasks[j].payload.newWorkOrder.present /\ PatchIssued(j)

-----------------------------------------------------------------------------
(* C8 *)

\* C8: when the GET fails (error status, transport error, or a response the
\* work order cannot be read from) the task ends after logging an error: no
\* due date is computed, no PATCH is issued and the GET is not issued again
C8_GetFailureEndsTask ==
    \A i \in TaskIds :
        GetFailed(i) =>
            /\ tasks[i].pc = "done"
            /\ ~PatchIssued(i)
            /\ Len(CallsOf(i, "GET")) = 1
            /\ ~DueDateComputed(i)
            /\ tasks[i].logs[Len(tasks[i].logs)].level = "error"

\* a task whose GET was answered with an error status, and one whose GET met
\* a transport error
C8_Witness ==
    \E i, j \in TaskIds :
        /\ GetFailed(i) /\ tasks[i].get.hasResponse /\ tasks[i].get.status = 404
        /\ GetFailed(j) /\ ~tasks[j].get.ok /\ ~tasks[j].get.hasResponse

-----------------------------------------------------------------------------
(* C9 *)

\* C9: when the resolved snapshot, embedded or fetched, has no priority the
\* task ends as a no-op: no due date is computed, none is defaulted, and no
\* PATCH is issued
C9_NoPriorityIsNoOp ==
    \A i \in TaskIds :
        (HasResolved(i) /\ ~Truthy(Resolved(i).priority)) =>
            /\ tasks[i].pc = "done"
            /\ ~PatchIssued(i)
            /\ ~DueDateComputed(i)
            /\ tasks[i].logs[Len(tasks[i].logs)].msg = "has no priority set"

\* one task ended on an embedded snapshot without priority, another on a
\* fetched one
C9_Witness ==
    \E i, j \in TaskIds :
        /\ tasks[i].payload.newWorkOrder.present
        /\ ~Truthy(tasks[i].payload.newWorkOrder.priority)
        /\ ~tasks[j].payload.newWorkOrder.present
        /\ GetHasSettled(j) /\ ~GetFailed(j)
        /\ ~Truthy(tasks[j].get.workOrder.priority)

-----------------------------------------------------------------------------
(* C10 *)

\* the update of task i succeeded
UpdateSucceeded(i) == PatchIssued(i) /\ tasks[i].pc = "done" /\ tasks[i].patch.ok

LogsAfterPatch(i) == SubSeq(tasks[i].logs, Len(tasks[i].logs) - 2, Len(tasks[i].logs))

\* C10: an event whose resolved snapshot has a priority and whose update
\* succeeds issued exactly one PATCH, to {baseUrl}/workorders/{its own
\* workOrderId}, with the body { dueDate: calculateDueDate(priority) }; its
\* log holds the computed due date and, written once the PATCH has settled,
\* the status and the two rate-limit headers, "N/A" for an absent one, these
\* lines all at log level (no warning, no error)
C10_SuccessfulUpdate ==
    \A i \in TaskIds :
        UpdateSucceeded(i) =>
            LET patch == CallsOf(i, "PATCH")
                due == calculateDueDate(Resolved(i).priority,
                                        NewDate(tasks[i].computedAt), config.tz).value
                after == LogsAfterPatch(i)
            IN  /\ HasResolved(i) /\ Truthy(Resolved(i).priority)
                /\ Len(patch) = 1
                /\ patch[1].url = ExpectedUrl(i)
                /\ patch[1].dueDate = due
                /\ \E k \in 1..Len(tasks[i].logs) :
                       /\ tasks[i].logs[k].msg = "Calculated new due date"
                       /\ tasks[i].logs[k].args[3] = due
                /\ after[1].msg = "Successfully updated Work Order"
                /\ after[1].args[2] = NumberToString(tasks[i].patch.status)
                /\ after[2].msg = "Rate Limit Remaining"
                /\ after[2].args[1] =
                       (IF tasks[i].patch.rateLimitRemaining = Undefined
                        THEN Str(<< "N/A" >>) ELSE tasks[i].patch.rateLimitRemaining)
                /\ after[3].msg = "Rate Limit Reset"
                /\ after[3].args[1] =
                       (IF tasks[i].patch.rateLimitReset = Undefined
                        THEN Str(<< "N/A" >>) ELSE tasks[i].patch.rateLimitReset)
                /\ \A k \in 1..3 : after[k].level = "log"

\* two events for different work orders both updated, one answered without
\* rate-limit headers, the due dates computed at different instants
C10_Witness ==
    \E i, j \in TaskIds :
        /\ UpdateSucceeded(i) /\ UpdateSucceeded(j)
        /\ tasks[i].payload.workOrderId # tasks[j].payload.workOrderId
        /\ tasks[i].patch.rateLimitReset = Undefined
        /\ tasks[j].patch.rateLimitReset # Undefined
        /\ tasks[i].computedAt # tasks[j].computedAt

-----------------------------------------------------------------------------
(* C11, C12, C13 *)

\* the PATCH of task i has settled
PatchSettled(i) == PatchIssued(i) /\ tasks[i].pc \in {"done", "rejected"}

LogsAt(i, level) == SelectSeq(tasks[i].logs, LAMBDA l : l.level = level)

RateLimitWarnings(i) ==
    SelectSeq(tasks[i].logs,
              LAMBDA l : l.level = "warn" /\ l.msg = "Rate limited. Retrying after")

\* the PATCH of task i was rejected with HTTP 429
RateLimited(i) ==
    /\ PatchSettled(i) /\ ~tasks[i].patch.ok
    /\ tasks[i].patch.hasResponse /\ tasks[i].patch.status = 429

\* the PATCH of task i failed with another status, or without any response
FailedOtherwise(i) ==
    /\ PatchSettled(i) /\ ~tasks[i].patch.ok
    /\ ~(tasks[i].patch.hasResponse /\ tasks[i].patch.status = 429)

\* C11: when the PATCH is rejected with HTTP 429 and the response carries
\* the header x-rate-limit-reset, the event's log holds exactly one rate-limit
\* warning, which carries the value of that header, and no error-level line
C11_RateLimitWarnsWithoutError ==
    \A i \in TaskIds :
        ( /\ RateLimited(i) /\ tasks[i].patch.hasHeaders
          /\ tasks[i].patch.rateLimitReset # Undefined )
            => /\ Len(RateLimitWarnings(i)) = 1
               /\ RateLimitWarnings(i)[1].args[1] = tasks[i].patch.rateLimitReset
               /\ Len(LogsAt(i, "error")) = 0

\* C12: when the PATCH fails with a status other than 429, or with an error
\* that carries no response, the event's log holds exactly one error-level
\* line, carrying the body of the response when there is one and the message
\* of the error otherwise, and no rate-limit warning
C12_OtherFailureLogsOneError ==
    \A i \in TaskIds :
        FailedOtherwise(i) =>
            /\ tasks[i].pc = "done"
            /\ Len(LogsAt(i, "error")) = 1
            /\ LogsAt(i, "error")[1].msg = "Failed to update Work Order"
            /\ LogsAt(i, "error")[1].args[2] =
                   (IF tasks[i].patch.hasResponse THEN tasks[i].patch.data
                    ELSE tasks[i].patch.message)
            /\ Len(RateLimitWarnings(i)) = 0

\* one update answered 500 with a body, another failed without any response
C12_Witness ==
    \E i, j \in TaskIds :
        /\ FailedOtherwise(i) /\ tasks[i].patch.hasResponse
        /\ tasks[i].patch.status = 500
        /\ FailedOtherwise(j) /\ ~tasks[j].patch.hasResponse

\* C13: the promise of processWebhookEvent never rejects, whatever the GET
\* and the PATCH settle with (a 429 response without headers included)
C13_PromiseNeverRejects ==
    \A i \in TaskIds : tasks[i].pc # "rejected"

-----------------------------------------------------------------------------
(* C14 *)

Verified == { d \in 1..Len(deliveries) : deliveries[d].verified = "true" }

\* the positions in calls of the outbound calls of task i
CallIndexes(i) == { k \in 1..Len(calls) : calls[k].task = i }

\* C14: a request that passes verification is answered 200 before its
\* processWebhookEvent is started, so before any outbound call of that event
\* is issued, and the status it was answered with stays 200 whatever the
\* processing does afterwards
C14_AnsweredBeforeProcessing ==
    /\ [](\A d \in Verified :
              /\ deliveries[d].status = 200
              /\ deliveries[d].task \in TaskIds
              /\ deliveries[d].sent.tasks < deliveries[d].task
              /\ \A k \in CallIndexes(deliveries[d].task) : k > deliveries[d].sent.calls)
    /\ [][\A d \in 1..Len(deliveries) :
              /\ deliveries'[d].status = deliveries[d].status
              /\ deliveries'[d].sent = deliveries[d].sent]_vars

\* two verified requests answered 200: the update of one was rejected with
\* 429 and its promise rejected, the other ended as a skip
C14_Witness ==
    \E d, e \in Verified :
        /\ deliveries[d].status = 200 /\ deliveries[e].status = 200
        /\ deliveries[d].task \in TaskIds /\ deliveries[e].task \in TaskIds
        /\ tasks[deliveries[d].task].pc = "rejected"
        /\ CallIndexes(deliveries[d].task) # {}
        /\ tasks[deliveries[e].task].pc = "done"
        /\ HasLog(deliveries[e].task, "log", "has no priority set")

-----------------------------------------------------------------------------
(* C18 *)

PatchCalls == SelectSeq(calls, LAMBDA c : c.method = "PATCH")

\* the event of task i carries a snapshot with a priority, so its update is
\* submitted as soon as it is processed
EmbeddedPriority(i) ==
    /\ tasks[i].payload.newWorkOrder.present
    /\ Truthy(tasks[i].payload.newWorkOrder.priority)

\* C18: every delivery that passes verification starts one invocation of
\* processWebhookEvent of its own and no other delivery starts any; a
\* delivery of an event with a priority has one PATCH of its own however
\* often the same event was delivered before, so k deliveries of the event
\* make k PATCH calls; and there are never more PATCH calls than verified
\* deliveries
C18_OneInvocationPerDelivery ==
    /\ Len(tasks) = Cardinality(Verified)
    /\ \A d \in Verified :
           /\ deliveries[d].task \in TaskIds
           /\ tasks[deliveries[d].task].delivery = d
           /\ tasks[deliveries[d].task].payload = JsonParse(deliveries[d].rawBody)
    /\ \A i \in TaskIds :
           /\ tasks[i].delivery \in Verified
           /\ deliveries[tasks[i].delivery].task = i
           /\ EmbeddedPriority(i) => Len(CallsOf(i, "PATCH")) = 1
    /\ Len(PatchCalls) <= Cardinality(Verified)

\* the same request delivered twice, both verified: two PATCH calls for the
\* one work order, both accepted
C18_Witness ==
    \E d, e \in Verified :
        /\ d # e
        /\ deliveries[d].rawBody = deliveries[e].rawBody
        /\ deliveries[d].signatureHeader = deliveries[e].signatureHeader
        /\ UpdateSucceeded(deliveries[d].task) /\ UpdateSucceeded(deliveries[e].task)
        /\ EmbeddedPriority(deliveries[d].task)
        /\ Len(PatchCalls) = 2
        /\ PatchCalls[1].url = PatchCalls[2].url

-----------------------------------------------------------------------------
(* C20 *)

\* the stages of one invocation, in their order
Stage(pc) ==
    CASE pc = "awaitGet"   -> 1
      [] pc = "awaitPatch" -> 2
      [] pc = "done"       -> 3
      [] pc = "rejected"   -> 3

Ended(i) == tasks[i].pc \in {"done", "rejected"}

\* C20: an invocation issues at most one GET and at most one PATCH; when it
\* issues a GET, its PATCH is issued only after that GET has returned a work
\* order; it never goes back a stage; and once it has ended, after a failed
\* GET or a failed PATCH (a 429 included) as after a success, it issues no
\* further call
C20_LinearStages ==
    /\ [](\A i \in TaskIds :
              /\ Len(CallsOf(i, "GET")) <= 1
              /\ Len(CallsOf(i, "PATCH")) <= 1
              /\ (GetIssued(i) /\ PatchIssued(i)) =>
                     /\ GetHasSettled(i) /\ ~GetFailed(i)
                     /\ \A g, p \in CallIndexes(i) :
                            (calls[g].method = "GET" /\ calls[p].method = "PATCH")
                                => g < p
              /\ GetFailed(i) => (Ended(i) /\ ~PatchIssued(i))
              /\ (PatchSettled(i) /\ ~tasks[i].patch.ok) => Ended(i))
    /\ [][\A i \in TaskIds :
              /\ Stage(tasks'[i].pc) >= Stage(tasks[i].pc)
              /\ SubSeq(calls', 1, Len(calls)) = calls
              /\ Ended(i) =>
                     /\ tasks'[i].pc = tasks[i].pc
                     /\ \A k \in (Len(calls) + 1)..Len(calls') : calls'[k].task # i]_vars

\* one event went through GET and PATCH and was rate limited, another ended
\* at a failed GET
C20_Witness ==
    \E i, j \in TaskIds :
        /\ GetIssued(i) /\ PatchIssued(i) /\ RateLimited(i)
        /\ GetFailed(j) /\ Ended(j)

-----------------------------------------------------------------------------
(* C15, C16, C17 *)

\* the Date an ISO string stands for
FromISO(iso) ==
    DateValue(DaysFromCivil(iso[1][2], iso[1][3], iso[1][4]),
              ((iso[1][5] * 60 + iso[1][6]) * 60 + iso[1][7]) * 1000 + iso[1][8])

\* the offsets in whole days, as documented
DocumentedDays(priority) ==
    CASE priority = HIGH   -> 1
      [] priority = MEDIUM -> 3
      [] priority = LOW    -> 7
      [] priority = NONE   -> 14

\* C15: for each of the four tags and every instant, calculateDueDate
\* returns the instant of the call plus exactly 1, 3, 7 or 14 whole days:
\* the date that many days on, the time of day unchanged
C15_AddsWholeDays ==
    (dcall.called /\ KnownPriority(dreq.priority)) =>
        dcall.value = ToISOString(AddDays(dcall.at, DocumentedDays(dreq.priority)))

IsIsoString(v) ==
    /\ Len(v) = 1 /\ Len(v[1]) = 8 /\ v[1][1] = "iso"
    /\ v[1][3] \in 1..12 /\ v[1][4] \in 1..31
    /\ v[1][5] \in 0..23 /\ v[1][6] \in 0..59 /\ v[1][7] \in 0..59
    /\ v[1][8] \in 0..999

\* C17: for every argument (a tag, another value, none) calculateDueDate
\* returns an ISO-8601 UTC string with milliseconds, never null, so that
\* processWebhookEvent, given a snapshot with that priority, never takes the
\* branch "Could not calculate due date": it submits the returned value
C17_TotalSoBranchUnreachable ==
    dcall.called =>
        /\ IsIsoString(dcall.value)
        /\ Truthy(dcall.value)
        /\ \A k \in 1..Len(dcall.step.logs) :
               dcall.step.logs[k].msg # "Could not calculate due date"
        /\ Truthy(dreq.priority) =>
               /\ dcall.step.pc = "awaitPatch"
               /\ Len(dcall.step.issued) = 1
               /\ dcall.step.issued[1].dueDate = dcall.value

\* a call on a value outside the four tags, which takes the default branch
C17_Witness ==
    /\ dcall.called
    /\ dreq.priority = Str(<< "high" >>)
    /\ dcall.step.pc = "awaitPatch"
    /\ IsIsoString(dcall.value)

-----------------------------------------------------------------------------
(* C19 *)

\* C19: a validly signed request whose timestamp is ahead of the clock, by
\* whatever amount, is accepted; a validly signed request is rejected only
\* when its age has reached the tolerance
C19_FutureTimestampAccepted ==
    (Called /\ ValidlySigned) =>
        /\ AgeMs(HeaderTimestamp) < 0 => vcall.result = "true"
        /\ vcall.result = "false" => AgeMs(HeaderTimestamp) >= WindowMs

\* a validly signed request accepted with a timestamp further ahead of the
\* clock than the tolerance is long
C19_Witness ==
    /\ Called /\ ValidlySigned
    /\ vcall.result = "true"
    /\ AgeMs(HeaderTimestamp) < 0 - WindowMs

-----------------------------------------------------------------------------
(* C24 *)

\* task i has no snapshot to work on: none embedded, and its GET succeeded
\* with a body that holds no workOrder
NoSnapshotObtained(i) ==
    /\ ~tasks[i].payload.newWorkOrder.present
    /\ GetHasSettled(i)
    /\ tasks[i].get.ok /\ tasks[i].get.hasData /\ ~tasks[i].get.workOrder.present

\* C24: when no snapshot can be obtained, or the resolved snapshot has no
\* priority, every line the event logs is informational: none at error
\* level, none at warning level
C24_SkipsLoggedAsInformation ==
    \A i \in TaskIds :
        ( \/ NoSnapshotObtained(i)
          \/ (HasResolved(i) /\ ~Truthy(Resolved(i).priority)) )
            => \A k \in 1..Len(tasks[i].logs) : tasks[i].logs[k].level = "log"

-----------------------------------------------------------------------------
(* C27 *)

\* C27: a call on a header of the documented shape whose t value is not a
\* decimal number returns false and does not throw, whether or not the v1
\* digest is the HMAC over "<t>.<body>"
C27_NonDecimalTimestampRejected ==
    (Called /\ DocumentedShape /\ ~IsDecimal(HeaderTimestamp))
        => vcall.result = "false"

-----------------------------------------------------------------------------
(* C28 *)

\* C28: no line logged by any event, at any level, holds the API key
C28_ApiKeyNeverLogged ==
    \A i \in TaskIds :
        \A k \in 1..Len(tasks[i].logs) :
            \A a \in 1..Len(tasks[i].logs[k].args) :
                tasks[i].logs[k].args[a] # config.apiKey

-----------------------------------------------------------------------------
(* C25 *)

\* an organization id is configured: MAINTAINX_ORG_ID is set and not empty
OrgIdConfigured == Truthy(config.orgId)

\* C25: every outbound call carries Authorization: Bearer <API key>; it
\* carries x-organization-id, with the configured value, exactly when an
\* organization id is configured; the PATCH carries Content-Type:
\* application/json; and the GET and the PATCH of one event carry the same
\* headers
C25_CallHeaders ==
    /\ \A k \in 1..Len(calls) :
           /\ calls[k].headers.Authorization = Str(<< "Bearer " >>) \o config.apiKey
           /\ OrgIdConfigured => calls[k].headers.xOrganizationId = config.orgId
           /\ ~OrgIdConfigured => calls[k].headers.xOrganizationId = Undefined
           /\ calls[k].method = "PATCH"
                  => calls[k].headers.ContentType = Str(<< "application/json" >>)
    /\ \A i \in TaskIds :
           (GetIssued(i) /\ PatchIssued(i))
               => CallsOf(i, "GET")[1].headers = CallsOf(i, "PATCH")[1].headers

\* one event has issued its GET and its PATCH under a configured organization
\* id, and another call was made under that configuration too
C25_Witness ==
    /\ OrgIdConfigured
    /\ \E i \in TaskIds : GetIssued(i) /\ PatchIssued(i)
    /\ Len(calls) >= 3

\* calls were made with MAINTAINX_ORG_ID set to the empty string
C25_WitnessEmptyOrgId ==
    /\ config.orgId = EmptyString
    /\ \E i \in TaskIds : GetIssued(i) /\ PatchIssued(i)

-----------------------------------------------------------------------------
(* C21 *)

\* one step followed by another of the same invocation
Then(first, second) ==
    Step(second.pc, first.logs \o second.logs, first.issued \o second.issued)

\* the instant at which task i computed its due date (any instant when it
\* computed none)
ComputedAt(i) ==
    NewDate(IF tasks[i].computedAt >= 0 THEN tasks[i].computedAt ELSE 0)

\* processWebhookEvent run on its own, with no other invocation around, on
\* the payload of task i, with the GET response and the PATCH response task i
\* has received so far and the instant at which task i computed its due date
Alone(i) ==
    LET p == tasks[i].payload
        started == StartProcessing(i, config, p, ComputedAt(i))
        fetched ==
            IF started.pc = "awaitGet" /\ tasks[i].get # NotSettled
            THEN Then(started, AfterGet(i, config, p, tasks[i].get, ComputedAt(i)))
            ELSE started
    IN  IF fetched.pc = "awaitPatch" /\ tasks[i].patch # NotSettled
        THEN Then(fetched, AfterPatch(p, tasks[i].patch))
        ELSE fetched

\* the outbound calls of task i, in the order of their issue
OwnCalls(i) == SelectSeq(calls, LAMBDA c : c.task = i)

\* C21: however many invocations are in flight and however their steps
\* interleave, the calls an event issues (URL, headers, body), the lines it
\* logs and the way it ends are those of an invocation run alone on the same
\* payload, the same GET response, the same PATCH response and the same
\* instant of the due-date computation; and the configuration the invocations
\* share is never modified
C21_InvocationsIndependent ==
    /\ [](\A i \in TaskIds :
              \E alone \in { Alone(i) } :
                  /\ OwnCalls(i) = alone.issued
                  /\ tasks[i].logs = alone.logs
                  /\ tasks[i].pc = alone.pc)
    /\ [][config' = config]_vars

\* two events for different work orders were in flight together: the second
\* issued its PATCH between the GET and the PATCH of the first, and both have
\* ended
C21_Witness ==
    \E i, j \in TaskIds :
        /\ tasks[i].payload.workOrderId # tasks[j].payload.workOrderId
        /\ Ended(i) /\ Ended(j)
        /\ \E g, q, r \in 1..Len(calls) :
               /\ g < q /\ q < r
               /\ calls[g].task = i /\ calls[g].method = "GET"
               /\ calls[q].task = j /\ calls[q].method = "PATCH"
               /\ calls[r].task = i /\ calls[r].method = "PATCH"

-----------------------------------------------------------------------------
(* C22 *)

\* the position in calls of the PATCH of task i (0 when it has issued none)
PatchIndex(i) ==
    IF PatchIssued(i)
    THEN CHOOSE k \in 1..Len(calls) : calls[k].task = i /\ calls[k].method = "PATCH"
    ELSE 0

\* the position in calls of the first call of task i (0 when it has issued
\* none)
FirstCallIndex(i) ==
    IF CallIndexes(i) = {}
    THEN 0
    ELSE CHOOSE k \in CallIndexes(i) : \A m \in CallIndexes(i) : k <= m

\* task i issues a call before its first await: its event carries a priority
\* (the PATCH) or no snapshot (the GET)
CallsBeforeFirstAwait(i) ==
    EmbeddedPriority(i) \/ ~tasks[i].payload.newWorkOrder.present

\* C22: nothing serializes the events of one work order.  Every
\* authenticated event is started in the step that receives it and issues
\* its first call in that step, whether or not an invocation for the same
\* work order is suspended at its GET or at its PATCH; so a PATCH can
\* overtake the PATCH of an event received earlier, and that happens only to
\* an earlier event that had to fetch its snapshot
C22_SameWorkOrderNotSerialized ==
    /\ \A d \in Verified :
           /\ deliveries[d].task \in TaskIds
           /\ CallsBeforeFirstAwait(deliveries[d].task)
                  => FirstCallIndex(deliveries[d].task) = deliveries[d].sent.calls + 1
    /\ \A i, j \in TaskIds :
           (i < j /\ PatchIssued(i) /\ PatchIssued(j) /\ PatchIndex(j) < PatchIndex(i))
               => GetIssued(i)

\* two events for the same work order: the first carried no snapshot and was
\* suspended at its GET while the second, with an embedded snapshot, issued
\* its PATCH; the PATCH of the first came last, both updates succeeded, and
\* the two due dates differ, so the due date left at the remote is the one
\* computed for the event received first
C22_Witness ==
    \E i, j \in TaskIds :
        /\ i < j
        /\ tasks[i].payload.workOrderId = tasks[j].payload.workOrderId
        /\ ~tasks[i].payload.newWorkOrder.present
        /\ tasks[j].payload.newWorkOrder.present
        /\ PatchIssued(i) /\ PatchIssued(j)
        /\ PatchIndex(j) < PatchIndex(i)
        /\ PatchIndex(i) = Len(calls)
        /\ calls[PatchIndex(i)].url = calls[PatchIndex(j)].url
        /\ calls[PatchIndex(i)].dueDate # calls[PatchIndex(j)].dueDate
        /\ UpdateSucceeded(i) /\ UpdateSucceeded(j)

-----------------------------------------------------------------------------
(* C26 *)

\* the latest step was a call that followed an earlier call
CalledAgain == vcall.prior # "none"

\* C26: verifyWebhookSignature keeps nothing from one call to the next.  What
\* a call returns and logs is what the function gives for the header, the
\* body, the secret, the tolerance and the instant of that call, whatever the
\* call before returned; a call repeated at the same instant returns what the
\* call before it returned; and a validly signed request that was accepted is
\* accepted by every later call made while its age is less than the tolerance
C26_NoStateBetweenCalls ==
    /\ [](Called =>
             \E r \in { verifyWebhookSignature(vreq.signatureHeader, vreq.rawBody,
                            vreq.secret, vreq.toleranceMinutes, vcall.at) } :
                 vcall.result = r.result /\ vcall.logs = r.logs)
    /\ [][ (Called /\ vcall' # vcall /\ vcall'.at = vcall.at)
               => (vcall'.result = vcall.result /\ vcall'.logs = vcall.logs) ]_vars
    /\ [][ ( /\ vcall.result = "true" /\ ValidlySigned
             /\ vcall' # vcall
             /\ vcall'.at - DecimalValue(HeaderTimestamp) * SecondsToMs < WindowMs )
               => vcall'.result = "true" ]_vars

\* a validly signed request was accepted by one call and accepted again by a
\* later call, at a later instant inside the tolerance window
C26_Witness ==
    /\ ValidlySigned
    /\ CalledAgain
    /\ vcall.prior = "true"
    /\ vcall.result = "true"
    /\ vcall.at > 0
    /\ AgeMs(HeaderTimestamp) >= 0
    /\ AgeMs(HeaderTimestamp) < WindowMs

-----------------------------------------------------------------------------
(* C23 *)

\* task i is suspended at an outbound call that has not settled
Suspended(i) ==
    \/ tasks[i].pc = "awaitGet" /\ tasks[i].get = NotSettled
    \/ tasks[i].pc = "awaitPatch" /\ tasks[i].patch = NotSettled

\* C23: when every outbound call settles in the end, every invocation that
\* was started ends, and no invocation issues more than two outbound calls.
\* There is no timeout: an invocation suspended at a call that has not
\* settled stays where it is, logs nothing and issues nothing, whatever else
\* happens and however far the clock moves; only the settling of its own
\* call resumes it
C23_TerminatesWhenCallsSettle ==
    /\ \A i \in 1..MaxDeliveries :
           (Len(tasks) >= i) ~> (Len(tasks) >= i /\ Ended(i))
    /\ [](\A i \in TaskIds : Len(OwnCalls(i)) <= 2)
    /\ [][ \A i \in TaskIds :
               (Suspended(i) /\ tasks'[i].get = tasks[i].get
                             /\ tasks'[i].patch = tasks[i].patch)
                   => /\ tasks'[i] = tasks[i]
                      /\ OwnCalls(i)' = OwnCalls(i) ]_vars
    /\ [][ now' # now => (tasks' = tasks /\ calls' = calls) ]_vars

\* an invocation has ended after two outbound calls, a GET and a PATCH that
\* both settled, while another one is still suspended at its call after the
\* clock has moved to the end of the replay window
C23_Witness ==
    \E i, j \in TaskIds :
        /\ Ended(i) /\ Len(OwnCalls(i)) = 2
        /\ tasks[i].get # NotSettled /\ tasks[i].patch # NotSettled
        /\ Suspended(j)
        /\ now = ToleranceMs(DefaultToleranceMinutes)

====
